---------------------------- MODULE Spec2Model ----------------------------
(* A model of lib/helpers.js of ffrk-proxy:                                 *)
(*   - makeSNICallback / SNICallback: per-hostname certificate issuance     *)
(*     with a promise cache and a serial counter;                           *)
(*   - decompressorFor, sendModifiedResponse, sendModifiedJsonResponse and  *)
(*     sendOriginalResponse: the response rewriting pipeline.               *)
EXTENDS Integers, Sequences, FiniteSets, TLC

(***************************************************************************)
(* Bounds of the model.                                                    *)
(***************************************************************************)
\* Number of SNICallback invocations explored on one issuer.
MaxInvocations == 3
\* Longest plaintext body, in bytes.
MaxBody == 2
\* Most invocations of the continuation by one transform.
MaxCont == 2

(***************************************************************************)
(* PART 1 - makeSNICallback                                                *)
(***************************************************************************)
VARIABLES
  seed,     \* the value `serial` was initialised with (Date.now() / 1000)
  serial,   \* let serial
  own,      \* own properties of `cache`: hostname -> promise id, 0 = no such property
  proto,    \* [[Prototype]] of `cache`: 0 = Object.prototype, else a promise id
  calls,    \* the calls made to cert.generateForHost, in order: [host, serial]
  pstate,   \* pstate[p]: state of the promise created by call p
  inv       \* the invocations of SNICallback, in order

sniVars == <<seed, serial, own, proto, calls, pstate, inv>>

\* The state of the response rewriting (PART 2).
VARIABLES
  rmode,    \* which send* function was called for the response ("idle": none yet)
  resp,     \* `response`, the http.IncomingMessage: statusCode, headers, body stream
  input,    \* history: the headers as received, the plaintext and how it was encoded
  dec,      \* `decompressor`: kind, parser state, pending input
  pipe,     \* history: the 'data' chunks and the 'end' that dataPipe emitted
  chunks,   \* const chunks = []
  tf,       \* the transform: its calls, what it passed to the continuation first,
            \* and what it passed in the call that wrote the response
  out,      \* what has been written to clientRes, in order
  crashed   \* an unhandled 'error' event ended the process

rwVars == <<rmode, resp, input, dec, pipe, chunks, tf, out, crashed>>

\* The last call of decompressorFor made on its own: its argument and result.
VARIABLES probe

\* The last call of jsonParse: its argument, the parsers it ran and its outcome.
VARIABLES parsed

\* The runtime version makeSNICallback was last called on, and whether it
\* returned a hook.
VARIABLES gate

vars == <<sniVars, rwVars, probe, parsed, gate>>

\* Longest payload given to jsonParse, in tokens.
MaxPayload == 3

\* Server names a TLS client may send.  The last two are names of properties
\* that a JavaScript object literal inherits from Object.prototype.
Hostnames == {"example.com", "other.test", "__proto__", "hasOwnProperty"}

\* Values Math.floor(Date.now() / 1000) may have when the issuer is made.
Seeds == {1700000000, 1700000060}

NoError == [kind |-> "none", id |-> 0]
IssuanceError(p) == [kind |-> "issuance", id |-> p]
CallbackError(i) == [kind |-> "callback", id |-> i]

\* cache.hasOwnProperty resolves to Object.prototype.hasOwnProperty unless the
\* cache has an own property of that name (which then holds a promise, and
\* calling a promise throws a TypeError).
HasOwnPropertyIsCallable(o) == o["hasOwnProperty"] = 0

\* cache.hasOwnProperty(servername)
HasOwnProperty(o, h) == o[h] # 0

\* cache[servername] = promise: an ordinary own data property, except that
\* the name __proto__ reaches the setter inherited from Object.prototype.
OwnAfterSet(o, h, p) == IF h = "__proto__" THEN o ELSE [o EXCEPT ![h] = p]
ProtoAfterSet(pr, h, p) == IF h = "__proto__" THEN p ELSE pr

\* cache[servername]: the own property, else what the prototype chain gives.
CacheGet(o, pr, h) == IF o[h] # 0 THEN o[h] ELSE IF h = "__proto__" THEN pr ELSE 0

\* serial++ : the value left in `serial`.
SerialUnchanged(s) == s
SerialAfterIssue(s) == s + 1

\* Whether no issuance for h has settled yet (history, for the claims).
NoneSettled(h) == \A p \in 1..Len(calls) : calls[p].host = h => pstate[p] = "pending"

\* Whether an issuance for h has failed (history, for the claims).
SomeFailed(h) == \E p \in 1..Len(calls) : calls[p].host = h /\ pstate[p] = "rejected"

SNIInit ==
  /\ seed \in Seeds
  /\ serial = seed
  /\ own = [h \in Hostnames |-> 0]
  /\ proto = 0
  /\ calls = <<>>
  /\ pstate = <<>>
  /\ inv = <<>>

\* One synchronous run of SNICallback(servername, cb).
SNICallback(h) ==
  /\ Len(inv) < MaxInvocations
  /\ IF ~HasOwnPropertyIsCallable(own)
     THEN \* line 141 throws: nothing else of the function runs
          /\ inv' = Append(inv, [host |-> h, promise |-> 0, threw |-> TRUE,
                                 early |-> NoneSettled(h), afterFailure |-> SomeFailed(h),
                                 hit |-> FALSE, cbs |-> <<>>])
          /\ UNCHANGED <<seed, serial, own, proto, calls, pstate>>
     ELSE IF ~HasOwnProperty(own, h)
     THEN \* slow path
          LET p == Len(calls) + 1
              o2 == OwnAfterSet(own, h, p)
              pr2 == ProtoAfterSet(proto, h, p)
          IN /\ calls' = Append(calls, [host |-> h, serial |-> serial])
             /\ serial' = SerialAfterIssue(serial)
             /\ pstate' = Append(pstate, "pending")
             /\ own' = o2
             /\ proto' = pr2
             /\ inv' = Append(inv, [host |-> h, promise |-> CacheGet(o2, pr2, h),
                                    threw |-> FALSE, early |-> NoneSettled(h),
                                    afterFailure |-> SomeFailed(h),
                                    hit |-> FALSE, cbs |-> <<>>])
             /\ UNCHANGED seed
     ELSE /\ inv' = Append(inv, [host |-> h, promise |-> CacheGet(own, proto, h),
                                 threw |-> FALSE, early |-> NoneSettled(h),
                                 afterFailure |-> SomeFailed(h),
                                 hit |-> TRUE, cbs |-> <<>>])
          /\ UNCHANGED <<seed, serial, own, proto, calls, pstate>>
  /\ UNCHANGED <<rwVars, probe, parsed, gate>>

\* cert.generateForHost calls back with a pem and tls.createSecureContext
\* builds the context: the cached promise is fulfilled.
IssueSucceeds(p) ==
  /\ p \in 1..Len(pstate)
  /\ pstate[p] = "pending"
  /\ pstate' = [pstate EXCEPT ![p] = "fulfilled"]
  /\ UNCHANGED <<seed, serial, own, proto, calls, inv, rwVars, probe, parsed, gate>>

\* cert.generateForHost calls back with an error (or createSecureContext
\* throws): the cached promise is rejected.
IssueFails(p) ==
  /\ p \in 1..Len(pstate)
  /\ pstate[p] = "pending"
  /\ pstate' = [pstate EXCEPT ![p] = "rejected"]
  /\ UNCHANGED <<seed, serial, own, proto, calls, inv, rwVars, probe, parsed, gate>>

\* The calls of cb made by the reactions of lines 156-161 once the promise
\* has settled.  cbThrows: whether cb throws when called.
CallbackCalls(i, p, st, cbThrows) ==
  IF st = "fulfilled"
  THEN IF cbThrows
       THEN <<[err |-> NoError, ctx |-> p], [err |-> CallbackError(i), ctx |-> 0]>>
       ELSE <<[err |-> NoError, ctx |-> p]>>
  ELSE <<[err |-> IssuanceError(p), ctx |-> 0]>>

\* The reactions registered by invocation i run.
Deliver(i) ==
  /\ i \in 1..Len(inv)
  /\ ~inv[i].threw
  /\ inv[i].cbs = <<>>
  /\ pstate[inv[i].promise] # "pending"
  /\ \E cbThrows \in BOOLEAN :
       inv' = [inv EXCEPT ![i].cbs =
                 CallbackCalls(i, inv[i].promise, pstate[inv[i].promise], cbThrows)]
  /\ UNCHANGED <<seed, serial, own, proto, calls, pstate, rwVars, probe, parsed, gate>>

(***************************************************************************)
(* PART 2 - decompressorFor and the three send* functions                  *)
(***************************************************************************)
\* The responses in flight.
Resp == {"r1", "r2"}

\* Bytes a plaintext body is made of.
ByteVals == {1, 2}

RECURSIVE SeqsUpTo(_, _)
SeqsUpTo(S, n) ==
  IF n = 0 THEN {<<>>}
  ELSE LET shorter == SeqsUpTo(S, n - 1)
       IN shorter \cup {Append(s, x) : s \in {t \in shorter : Len(t) = n - 1}, x \in S}

Bodies == SeqsUpTo(ByteVals, MaxBody)

RECURSIVE Flatten(_)
\* Buffer.concat(list)
Flatten(list) == IF list = <<>> THEN <<>> ELSE Head(list) \o Flatten(Tail(list))

RECURSIVE Sum(_)
Sum(b) == IF b = <<>> THEN 0 ELSE Head(b) + Sum(Tail(b))

(* ---- zlib, as far as this code relies on it --------------------------- *)
\* A compressed stream is: a magic byte naming the format, the payload bytes
\* (each one coded), an end-of-block byte, and a checksum of the plaintext.
Magic(kind) == IF kind = "gunzip" THEN 31 ELSE 120
CodeByte(b) == b + 100
PlainByte(c) == c - 100
EndOfBlock(c) == c = 0
Checksum(b) == Sum(b) % 251

Compress(kind, b) ==
  <<Magic(kind)>> \o [i \in 1..Len(b) |-> CodeByte(b[i])] \o <<0, Checksum(b)>>

\* zlib.createGunzip() / zlib.createInflate() / null
NewDecoder(kind) ==
  [kind |-> kind, phase |-> IF kind = "none" THEN "none" ELSE "magic",
   sum |-> 0, queue |-> <<>>, inputEnded |-> FALSE]

\* The decoder reads one byte: its next state, and the byte it puts out.
DecodeByte(d, c) ==
  CASE d.phase = "magic" ->
         IF c = Magic(d.kind) THEN [d |-> [d EXCEPT !.phase = "payload"], o |-> <<>>]
         ELSE [d |-> [d EXCEPT !.phase = "error"], o |-> <<>>]
    [] d.phase = "payload" ->
         IF EndOfBlock(c) THEN [d |-> [d EXCEPT !.phase = "check"], o |-> <<>>]
         ELSE IF c > 100
         THEN [d |-> [d EXCEPT !.sum = (d.sum + PlainByte(c)) % 251], o |-> <<PlainByte(c)>>]
         ELSE [d |-> [d EXCEPT !.phase = "error"], o |-> <<>>]
    [] d.phase = "check" ->
         IF c = d.sum THEN [d |-> [d EXCEPT !.phase = "done"], o |-> <<>>]
         ELSE [d |-> [d EXCEPT !.phase = "error"], o |-> <<>>]
    [] OTHER -> [d |-> [d EXCEPT !.phase = "error"], o |-> <<>>]

RECURSIVE DecodeChunk(_, _)
\* The decoder reads a chunk: its next state, and the bytes it puts out.
DecodeChunk(d, c) ==
  IF c = <<>> \/ d.phase = "error" THEN [d |-> d, o |-> <<>>]
  ELSE LET one == DecodeByte(d, Head(c))
           rest == DecodeChunk(one.d, Tail(c))
       IN [d |-> rest.d, o |-> one.o \o rest.o]

(* ---- headers ----------------------------------------------------------- *)
HasHeader(h, n) == n \in DOMAIN h
\* response.headers[n] = v
SetHeader(h, n, v) == [k \in DOMAIN h \cup {n} |-> IF k = n THEN v ELSE h[k]]
\* delete response.headers[n]
DeleteHeader(h, n) == [k \in DOMAIN h \ {n} |-> h[k]]

\* Values of content-encoding an upstream may send ("absent": no such header).
Encodings == {"gzip", "x-gzip", "deflate", "identity", "", "br", "compress",
              "GZIP", "gzip, deflate", "absent"}

\* Those a rewritten response is explored with.
RewriteEncodings == {"gzip", "deflate", "identity", "absent"}

\* A response carries its length, or is sent with a transfer encoding.
Framings == {"content-length", "content-transfer-encoding"}

StatusCodes == {200, 404}

ContentTypes == {"application/json", "text/html"}

\* How the body on the wire was made from the plaintext.
WireKinds == {"plain", "gzip", "deflate", "gzip-truncated"}

Wire(kind, b) ==
  CASE kind = "plain" -> b
    [] kind = "gzip" -> Compress("gunzip", b)
    [] kind = "deflate" -> Compress("inflate", b)
    [] kind = "gzip-truncated" -> SubSeq(Compress("gunzip", b), 1, Len(b) + 2)

UpstreamHeaders(enc, framing, w) ==
  LET h0 == [k \in {"content-type"} |-> "application/json"]
      h1 == IF enc = "absent" THEN h0 ELSE SetHeader(h0, "content-encoding", enc)
  IN IF framing = "content-length" THEN SetHeader(h1, "content-length", Len(w))
     ELSE SetHeader(h1, "content-transfer-encoding", "binary")

(* ---- decompressorFor --------------------------------------------------- *)
DecompressorNever(h) == "none"

DecompressorWithoutXGzip(h) ==
  LET contentEncoding == IF HasHeader(h, "content-encoding")
                         THEN h["content-encoding"] ELSE "absent"
  IN CASE contentEncoding = "gzip" -> "gunzip"
       [] contentEncoding = "deflate" -> "inflate"
       [] OTHER -> "none"

decompressorFor(h) ==
  LET contentEncoding == IF HasHeader(h, "content-encoding")
                         THEN h["content-encoding"] ELSE "absent"
  IN CASE contentEncoding \in {"x-gzip", "gzip"} -> "gunzip"
       [] contentEncoding = "deflate" -> "inflate"
       [] OTHER -> "none"

(* ---- what a transform may pass to the continuation ---------------------- *)
NoContent == [t |-> "none", bytes |-> <<>>, chars |-> <<>>, n |-> 0]
BufferOf(b) == [t |-> "buffer", bytes |-> b, chars |-> <<>>, n |-> 0]
StringOf(c) == [t |-> "string", bytes |-> <<>>, chars |-> c, n |-> 0]
\* The object {key: k}
ObjectOf(key, k) == [t |-> "object", bytes |-> <<>>, chars |-> key, n |-> k]
Null == [t |-> "null", bytes |-> <<>>, chars |-> <<>>, n |-> 0]
Undefined == [t |-> "undefined", bytes |-> <<>>, chars |-> <<>>, n |-> 0]

\* Raw mode: the body it was given (the identity transform), or a text "aé".
RawContents(arg) == {BufferOf(arg), StringOf(<<97, 233>>)}
\* Structured mode: {x: 1}, "é", null, undefined.
JsonContents == {ObjectOf(<<120>>, 1), StringOf(<<233>>), Null, Undefined}

\* UTF-8 of one code point below U+0800.
Utf8(c) == IF c < 128 THEN <<c>> ELSE <<192 + (c \div 64), 128 + (c % 64)>>

RECURSIVE Utf8Seq(_)
Utf8Seq(cs) == IF cs = <<>> THEN <<>> ELSE Utf8(Head(cs)) \o Utf8Seq(Tail(cs))

RECURSIVE Digits(_)
Digits(k) == IF k < 10 THEN <<48 + k>> ELSE Digits(k \div 10) \o <<48 + (k % 10)>>

\* JSON.stringify(value), as code points (undefined has no serialization).
JSONStringify(v) ==
  CASE v.t = "object" -> <<123, 34>> \o v.chars \o <<34, 58>> \o Digits(v.n) \o <<125>>
    [] v.t = "string" -> <<34>> \o v.chars \o <<34>>
    [] OTHER -> <<110, 117, 108, 108>>

\* new Buffer(modifiedContent)
ToBuffer(c) == IF c.t = "buffer" THEN c.bytes ELSE Utf8Seq(c.chars)

\* new Buffer(undefined) throws a TypeError
BufferThrows(mode, c) == mode = "structured" /\ c.t = "undefined"

\* modifiedContent after line 52 (raw) or line 89 (structured)
ModifiedBufferNeverStringified(mode, c) == ToBuffer(c)
ModifiedBuffer(mode, c) ==
  IF mode = "raw" THEN ToBuffer(c) ELSE Utf8Seq(JSONStringify(c))

(* ---- clientRes ----------------------------------------------------------- *)
NoHeaders == [k \in {} |-> ""]
HeadEvent(st, h) == [type |-> "head", status |-> st, headers |-> h, bytes |-> <<>>]
BodyEvent(b) == [type |-> "body", status |-> 0, headers |-> NoHeaders, bytes |-> b]
EndEvent == [type |-> "end", status |-> 0, headers |-> NoHeaders, bytes |-> <<>>]

\* A client response that would take a second head and body.
HeadersSentNever(o) == FALSE
HeadersSent(o) == \E k \in 1..Len(o) : o[k].type = "head"
Finished(o) == \E k \in 1..Len(o) : o[k].type = "end"

\* clientRes.write(b): nothing goes out for an empty chunk
Write(o, b) == IF b = <<>> THEN o ELSE Append(o, BodyEvent(b))
\* clientRes.end(b)
End(o, b) == Append(Write(o, b), EndEvent)

\* The body bytes written so far, chunk by chunk.
BodyChunks(o) == LET idx == {k \in 1..Len(o) : o[k].type = "body"}
                     RECURSIVE take(_)
                     take(k) == IF k > Len(o) THEN <<>>
                                ELSE IF k \in idx THEN <<o[k].bytes>> \o take(k + 1)
                                ELSE take(k + 1)
                 IN take(1)
EmittedBody(o) == Flatten(BodyChunks(o))

(* ---- the handlers of sendModifiedResponse / sendModifiedJsonResponse ---- *)
\* dataPipe.on('data'): chunks.push(chunk)
OnDataKeepsLast(ch, c) == <<c>>
OnData(ch, c) == Append(ch, c)

\* const origContent = Buffer.concat(chunks)
OrigContent(ch) == Flatten(ch)

\* The header set after lines 53-57 / 90-94.
HeadersKeepEncoding(h, buf) ==
  DeleteHeader(SetHeader(h, "content-length", Len(buf)), "content-transfer-encoding")
RewrittenHeaders(h, buf) ==
  DeleteHeader(DeleteHeader(SetHeader(h, "content-length", Len(buf)),
                            "content-encoding"),
               "content-transfer-encoding")

\* One `chunks` array for every response, in place of the array of each call.
EmitDataShared(r, c) ==
  /\ pipe' = [pipe EXCEPT ![r].emitted = Append(@, c)]
  /\ chunks' = [q \in Resp |-> OnData(chunks[q], c)]
  /\ UNCHANGED tf

\* dataPipe emits 'data'.
EmitData(r, c) ==
  /\ pipe' = [pipe EXCEPT ![r].emitted = Append(@, c)]
  /\ chunks' = [chunks EXCEPT ![r] = OnData(@, c)]
  /\ UNCHANGED tf

\* dataPipe emits 'end': the handler calls transform(origContent, continuation).
EmitEnd(r) ==
  /\ pipe' = [pipe EXCEPT ![r].ended = TRUE]
  /\ tf' = [tf EXCEPT ![r].calls = Append(@, OrigContent(chunks[r]))]
  /\ UNCHANGED chunks

IdleResp == [statusCode |-> 0, headers |-> NoHeaders, body |-> <<>>, sent |-> <<>>,
             ended |-> FALSE]
IdleInput == [status |-> 0, headers |-> NoHeaders, kind |-> "plain", plain |-> <<>>]

RWInit ==
  /\ rmode = [r \in Resp |-> "idle"]
  /\ resp = [r \in Resp |-> IdleResp]
  /\ input = [r \in Resp |-> IdleInput]
  /\ dec = [r \in Resp |-> NewDecoder("none")]
  /\ pipe = [r \in Resp |-> [emitted |-> <<>>, ended |-> FALSE]]
  /\ chunks = [r \in Resp |-> <<>>]
  /\ tf = [r \in Resp |-> [calls |-> <<>>, content1 |-> NoContent, conts |-> 0,
                          sent |-> NoContent]]
  /\ out = [r \in Resp |-> <<>>]
  /\ crashed = FALSE
  /\ probe = [headers |-> NoHeaders, result |-> "none"]

\* The upstream response whose headers have arrived: the arguments of a send*.
Upstream(r, st, enc, fr, kind, b) ==
  LET w == Wire(kind, b)
      h == UpstreamHeaders(enc, fr, w)
  IN /\ resp' = [resp EXCEPT ![r] = [statusCode |-> st, headers |-> h, body |-> w,
                                     sent |-> <<>>, ended |-> FALSE]]
     /\ input' = [input EXCEPT ![r] = [status |-> st, headers |-> h, kind |-> kind,
                                       plain |-> b]]

\* The synchronous part of sendModifiedResponse / sendModifiedJsonResponse.
\* The upstream responses a send* function is called with.
UpstreamResponses ==
  [st : StatusCodes, enc : RewriteEncodings, fr : Framings, kind : WireKinds, b : Bodies]

\* The same, for an upstream response drawn from I.
StartModifiedFrom(r, mode, I) ==
  /\ ~crashed
  /\ rmode[r] = "idle"
  /\ \E u \in I :
       /\ Upstream(r, u.st, u.enc, u.fr, u.kind, u.b)
       /\ dec' = [dec EXCEPT ![r] =
                    NewDecoder(decompressorFor(UpstreamHeaders(u.enc, u.fr,
                                                               Wire(u.kind, u.b))))]
  /\ rmode' = [rmode EXCEPT ![r] = mode]
  /\ UNCHANGED <<pipe, chunks, tf, out, crashed, sniVars, probe, parsed, gate>>

StartModified(r, mode) == StartModifiedFrom(r, mode, UpstreamResponses)

sendModifiedResponse(r) == StartModified(r, "raw")

sendModifiedJsonResponse(r) == StartModified(r, "structured")

\* clientRes.writeHead(response.statusCode, response.headers) of line 108
OriginalHeadWithoutEncoding(st, h) == HeadEvent(st, DeleteHeader(h, "content-encoding"))
OriginalHead(st, h) == HeadEvent(st, h)

sendOriginalResponse(r) ==
  /\ ~crashed
  /\ rmode[r] = "idle"
  /\ \E st \in StatusCodes, enc \in RewriteEncodings, fr \in Framings,
        kind \in WireKinds, b \in Bodies :
       /\ Upstream(r, st, enc, fr, kind, b)
       /\ out' = [out EXCEPT ![r] =
                    <<OriginalHead(st, UpstreamHeaders(enc, fr, Wire(kind, b)))>>]
  /\ rmode' = [rmode EXCEPT ![r] = "passthrough"]
  /\ UNCHANGED <<dec, pipe, chunks, tf, crashed, sniVars, probe, parsed, gate>>

\* What a 'data' event of `response` writes to clientRes: the chunk when the
\* response is piped to clientRes (line 109), nothing when it is piped to the
\* decompressor or read by the 'data' handler (lines 41-46, 78-83).
WriteOnDataAlways(mode, o, c) == Write(o, c)
WriteOnData(mode, o, c) == IF mode = "passthrough" THEN Write(o, c) ELSE o

\* `response` emits 'data' with the next n bytes of the body.
UpstreamData(r, n) ==
  /\ ~crashed
  /\ rmode[r] # "idle"
  /\ ~resp[r].ended
  /\ LET done == Len(Flatten(resp[r].sent))
         c == SubSeq(resp[r].body, done + 1, done + n)
     IN /\ n \in 1..(Len(resp[r].body) - done)
        /\ resp' = [resp EXCEPT ![r].sent = Append(@, c)]
        /\ out' = [out EXCEPT ![r] = WriteOnData(rmode[r], @, c)]
        /\ IF rmode[r] = "passthrough"
           THEN UNCHANGED <<dec, pipe, chunks, tf>>
           ELSE IF dec[r].kind = "none"
           THEN /\ EmitData(r, c)
                /\ UNCHANGED dec
           ELSE \* response.pipe(decompressor) writes the chunk to the decompressor
                /\ dec' = [dec EXCEPT ![r].queue = Append(@, c)]
                /\ UNCHANGED <<pipe, chunks, tf>>
  /\ UNCHANGED <<rmode, input, crashed, sniVars, probe, parsed, gate>>

\* `response` emits 'end' after the last byte of the body.
UpstreamEnd(r) ==
  /\ ~crashed
  /\ rmode[r] # "idle"
  /\ ~resp[r].ended
  /\ Len(Flatten(resp[r].sent)) = Len(resp[r].body)
  /\ resp' = [resp EXCEPT ![r].ended = TRUE]
  /\ IF rmode[r] = "passthrough"
     THEN /\ out' = [out EXCEPT ![r] = End(@, <<>>)]
          /\ UNCHANGED <<dec, pipe, chunks, tf>>
     ELSE IF dec[r].kind = "none"
     THEN /\ EmitEnd(r)
          /\ UNCHANGED <<dec, out>>
     ELSE \* response.pipe(decompressor) ends the decompressor
          /\ dec' = [dec EXCEPT ![r].inputEnded = TRUE]
          /\ UNCHANGED <<pipe, chunks, tf, out>>
  /\ UNCHANGED <<rmode, input, crashed, sniVars, probe, parsed, gate>>

\* The decompressor emits 'error'.  No handler is registered for it, so the
\* emitter throws: the exception ends the process, unless the embedding program
\* catches uncaught exceptions, and then the response is left as it is.
DecoderError(r, d) ==
  /\ dec' = [dec EXCEPT ![r] = [d EXCEPT !.phase = "error", !.queue = <<>>]]
  /\ crashed' \in BOOLEAN
  /\ UNCHANGED <<pipe, chunks, tf>>

\* The decompressor works through the chunk at the head of its input.
DecoderProcess(r) ==
  /\ ~crashed
  /\ dec[r].queue # <<>>
  /\ dec[r].phase # "error"
  /\ LET res == DecodeChunk(dec[r], Head(dec[r].queue))
         d == [res.d EXCEPT !.queue = Tail(dec[r].queue)]
     IN IF d.phase = "error"
        THEN DecoderError(r, d)
        ELSE /\ dec' = [dec EXCEPT ![r] = d]
             /\ IF res.o = <<>>
                THEN UNCHANGED <<pipe, chunks, tf>>
                ELSE EmitData(r, res.o)
             /\ UNCHANGED crashed
  /\ UNCHANGED <<rmode, resp, input, out, sniVars, probe, parsed, gate>>

\* The decompressor has read all of its input and the input has ended.
DecoderFinish(r) ==
  /\ ~crashed
  /\ dec[r].kind # "none"
  /\ dec[r].inputEnded
  /\ dec[r].queue = <<>>
  /\ dec[r].phase \notin {"error", "ended"}
  /\ \/ /\ dec[r].phase = "done" \/ (dec[r].phase = "magic" /\ resp[r].body = <<>>)
        /\ dec' = [dec EXCEPT ![r].phase = "ended"]
        /\ EmitEnd(r)
        /\ UNCHANGED crashed
     \/ /\ dec[r].phase # "done"
        /\ DecoderError(r, dec[r])
  /\ UNCHANGED <<rmode, resp, input, out, sniVars, probe, parsed, gate>>

\* The transform calls the continuation with modifiedContent = c.
ContinuationWith(r, c) ==
  /\ ~crashed
  /\ rmode[r] \in {"raw", "structured"}
  /\ Len(tf[r].calls) > 0
  /\ tf[r].conts < MaxCont
  /\ c \in (IF rmode[r] = "raw" THEN RawContents(tf[r].calls[1]) ELSE JsonContents)
  /\ tf' = [tf EXCEPT ![r].conts = @ + 1,
                      ![r].content1 = IF tf[r].conts = 0 THEN c ELSE @,
                      ![r].sent = IF BufferThrows(rmode[r], c) \/ HeadersSent(out[r])
                                  THEN @ ELSE c]
  /\ IF BufferThrows(rmode[r], c)
     THEN UNCHANGED <<resp, out>>
     ELSE LET buf == ModifiedBuffer(rmode[r], c)
              h == RewrittenHeaders(resp[r].headers, buf)
          IN /\ resp' = [resp EXCEPT ![r].headers = h]
             /\ IF HeadersSent(out[r])
                THEN \* writeHead throws, or is ignored together with end()
                     UNCHANGED out
                ELSE out' = [out EXCEPT ![r] =
                               End(Append(@, HeadEvent(resp[r].statusCode, h)), buf)]
  /\ UNCHANGED <<rmode, input, dec, pipe, chunks, crashed, sniVars, probe, parsed, gate>>

Continuation(r) ==
  \E c \in JsonContents \cup UNION {RawContents(a) : a \in {OrigContent(chunks[r])}} :
    ContinuationWith(r, c)

\* Longest body on the wire.
MaxWire == MaxBody + 3

\* One response at a time.
Single == {"r1"}

RWNext ==
  \/ \E r \in Single : sendModifiedResponse(r)
  \/ \E r \in Single : sendModifiedJsonResponse(r)
  \/ \E r \in Single : sendOriginalResponse(r)
  \/ \E r \in Single, n \in 1..MaxWire : UpstreamData(r, n)
  \/ \E r \in Single : UpstreamEnd(r)
  \/ \E r \in Single : DecoderProcess(r)
  \/ \E r \in Single : DecoderFinish(r)
  \/ \E r \in Single : Continuation(r)

\* Two rewrites in flight at once: r1 is a plain body with a content-length, r2
\* a gzip body with a transfer encoding and another status.
ConcurrentResponses(r) ==
  IF r = "r1"
  THEN {[st |-> 200, enc |-> "absent", fr |-> "content-length", kind |-> "plain",
         b |-> <<1, 2>>]}
  ELSE {[st |-> 404, enc |-> "gzip", fr |-> "content-transfer-encoding", kind |-> "gzip",
         b |-> <<2>>]}

\* The transform calls its continuation once.
ContinuationOnce(r) == tf[r].conts = 0 /\ Continuation(r)

ConcurrentNext ==
  \/ \E r \in Resp : StartModifiedFrom(r, "raw", ConcurrentResponses(r))
  \/ \E r \in Resp : StartModifiedFrom(r, "structured", ConcurrentResponses(r))
  \/ \E r \in Resp, n \in 1..MaxWire : UpstreamData(r, n)
  \/ \E r \in Resp : UpstreamEnd(r)
  \/ \E r \in Resp : DecoderProcess(r)
  \/ \E r \in Resp : DecoderFinish(r)
  \/ \E r \in Resp : ContinuationOnce(r)

SNINext ==
  \/ \E h \in Hostnames : SNICallback(h)
  \/ \E p \in 1..MaxInvocations : IssueSucceeds(p)
  \/ \E p \in 1..MaxInvocations : IssueFails(p)
  \/ \E i \in 1..MaxInvocations : Deliver(i)

(***************************************************************************)
(* PART 3 - jsonParse and the version test of makeSNICallback              *)
(***************************************************************************)
\* A payload is a text of these tokens, separated by blanks:
\*   {  }  :  1  "bad"  'bad'  bad
Tokens == {"{", "}", ":", "1", "\"bad\"", "'bad'", "bad"}

\* The payloads jsonParse is called with: the short ones, and
\* {"bad":1}, {bad:1}, {'bad':1,...} and the like of five tokens.
Payloads ==
  SeqsUpTo(Tokens, MaxPayload)
    \cup {<<"{", k, ":", v, "}">> : k \in Tokens \ {"{", "}", ":"}, v \in {"1", "bad"}}

NoParse == [ok |-> FALSE, throws |-> FALSE, val |-> <<>>, rest |-> <<>>]

RECURSIVE JsonValue(_)
\* JSON.parse reads one value at the head of the tokens.
JsonValue(ts) ==
  IF ts = <<>> THEN NoParse
  ELSE CASE Head(ts) \in {"1", "\"bad\""} ->
              [ok |-> TRUE, throws |-> FALSE, val |-> <<Head(ts)>>, rest |-> Tail(ts)]
         [] Head(ts) = "{" /\ Len(ts) >= 2 /\ ts[2] = "}" ->
              [ok |-> TRUE, throws |-> FALSE, val |-> <<"{", "}">>,
               rest |-> SubSeq(ts, 3, Len(ts))]
         [] Head(ts) = "{" /\ Len(ts) >= 3 /\ ts[2] = "\"bad\"" /\ ts[3] = ":" ->
              LET v == JsonValue(SubSeq(ts, 4, Len(ts)))
              IN IF v.ok /\ v.rest # <<>> /\ Head(v.rest) = "}"
                 THEN [ok |-> TRUE, throws |-> FALSE,
                       val |-> <<"{", "\"bad\"", ":">> \o v.val \o <<"}">>,
                       rest |-> Tail(v.rest)]
                 ELSE NoParse
         [] OTHER -> NoParse

\* JSON.parse(content): a value and nothing after it, or a SyntaxError.
JSONParse(ts) == LET v == JsonValue(ts) IN IF v.ok /\ v.rest = <<>> THEN v ELSE NoParse

\* The name of a property written as a key of an object literal.
KeyName(k) == IF k = "1" THEN "\"1\"" ELSE "\"bad\""

RECURSIVE JsExpression(_)
\* The JavaScript expression at the head of the tokens; throws: evaluating it
\* reads the undeclared variable `bad`.
JsExpression(ts) ==
  IF ts = <<>> THEN NoParse
  ELSE CASE Head(ts) \in {"1", "\"bad\""} ->
              [ok |-> TRUE, throws |-> FALSE, val |-> <<Head(ts)>>, rest |-> Tail(ts)]
         [] Head(ts) = "'bad'" ->
              [ok |-> TRUE, throws |-> FALSE, val |-> <<"\"bad\"">>, rest |-> Tail(ts)]
         [] Head(ts) = "bad" ->
              [ok |-> TRUE, throws |-> TRUE, val |-> <<>>, rest |-> Tail(ts)]
         [] Head(ts) = "{" /\ Len(ts) >= 2 /\ ts[2] = "}" ->
              [ok |-> TRUE, throws |-> FALSE, val |-> <<"{", "}">>,
               rest |-> SubSeq(ts, 3, Len(ts))]
         [] Head(ts) = "{" /\ Len(ts) >= 3 /\ ts[2] = "bad" /\ ts[3] = "}" ->
              \* {bad}: the property bad with the value of the variable bad
              [ok |-> TRUE, throws |-> TRUE, val |-> <<>>, rest |-> SubSeq(ts, 4, Len(ts))]
         [] Head(ts) = "{" /\ Len(ts) >= 3 /\ ts[2] \in {"1", "\"bad\"", "'bad'", "bad"}
              /\ ts[3] = ":" ->
              LET v == JsExpression(SubSeq(ts, 4, Len(ts)))
              IN IF v.ok /\ v.rest # <<>> /\ Head(v.rest) = "}"
                 THEN [ok |-> TRUE, throws |-> v.throws,
                       val |-> IF v.throws THEN <<>>
                               ELSE <<"{", KeyName(ts[2]), ":">> \o v.val \o <<"}">>,
                       rest |-> Tail(v.rest)]
                 ELSE NoParse
         [] OTHER -> NoParse

\* new Function('return ' + content)(): `return` with nothing after it gives
\* undefined; a text that is no expression is a SyntaxError.
EvaluateThrowsOnEmpty(ts) ==
  LET e == JsExpression(ts)
  IN IF e.ok /\ e.rest = <<>> /\ ~e.throws
     THEN [outcome |-> "value", val |-> e.val]
     ELSE [outcome |-> "throws", val |-> <<>>]
Evaluate(ts) ==
  IF ts = <<>> THEN [outcome |-> "value", val |-> <<"undefined">>]
  ELSE LET e == JsExpression(ts)
       IN IF e.ok /\ e.rest = <<>> /\ ~e.throws
          THEN [outcome |-> "value", val |-> e.val]
          ELSE [outcome |-> "throws", val |-> <<>>]

\* jsonParse(content)
jsonParse(ts) ==
  LET strict == JSONParse(ts)
  IN IF strict.ok
     THEN [payload |-> ts, paths |-> <<"strict">>, outcome |-> "value", val |-> strict.val]
     ELSE LET e == Evaluate(ts)
          IN [payload |-> ts, paths |-> <<"strict", "lenient">>,
              outcome |-> e.outcome, val |-> e.val]

JsonParseCall ==
  /\ \E ts \in Payloads : parsed' = jsonParse(ts)
  /\ UNCHANGED <<sniVars, rwVars, probe, gate>>

\* Versions of the runtime: process.version is v<major>.<minor>.<patch>.
Majors == 0..3
Minors == 0..30

\* const canUseSNI = ver[1] > 1 || ver[2] >= 12
canUseSNI(major, minor) == major > 1 \/ minor >= 12

\* makeSNICallback(caCert, caKey) up to line 136: a hook is returned if canUseSNI.
MakeSNICallback ==
  /\ \E major \in Majors, minor \in Minors :
       gate' = [major |-> major, minor |-> minor, hook |-> canUseSNI(major, minor)]
  /\ UNCHANGED <<sniVars, rwVars, probe, parsed>>

PureInit ==
  /\ parsed = [payload |-> <<"1">>, paths |-> <<"strict">>, outcome |-> "value",
               val |-> <<"1">>]
  /\ gate = [major |-> 0, minor |-> 12, hook |-> TRUE]

ParseNext == JsonParseCall

GateNext == MakeSNICallback

\* decompressorFor called on the headers of a response.
ProbeDecompressor ==
  /\ \E enc \in Encodings, fr \in Framings, kind \in WireKinds, b \in Bodies,
        ct \in ContentTypes :
       LET h == SetHeader(UpstreamHeaders(enc, fr, Wire(kind, b)), "content-type", ct)
       IN probe' = [headers |-> h, result |-> decompressorFor(h)]
  /\ UNCHANGED <<sniVars, rwVars, parsed, gate>>

DecoderNext == ProbeDecompressor

Init == SNIInit /\ RWInit /\ PureInit

\* An issuer made at the first of the seeds.
InitOneIssuer == Init /\ seed \leq 1700000000

\* The certificate issuer alone.
SpecSNI == Init /\ [][SNINext]_vars

\* One response going through one of the send* functions.
Spec == InitOneIssuer /\ [][RWNext]_vars

\* decompressorFor alone.
SpecDecoder == InitOneIssuer /\ [][DecoderNext]_vars

\* Two responses going through the rewriting functions at the same time.
SpecConcurrent == InitOneIssuer /\ [][ConcurrentNext]_vars

\* jsonParse alone.
SpecParse == InitOneIssuer /\ [][ParseNext]_vars

\* The version test of makeSNICallback alone.
SpecGate == InitOneIssuer /\ [][GateNext]_vars

(***************************************************************************)
(* The properties                                                          *)
(***************************************************************************)
Invocations == 1..Len(inv)
Issuances == 1..Len(calls)
EarlyFor(h) == {i \in Invocations : inv[i].host = h /\ inv[i].early}
CallsFor(h) == {p \in Issuances : calls[p].host = h}
Delivered(i) == inv[i].cbs # <<>>

\* C1: when two or more invocations of the hook for a hostname arrive before
\* the first issuance for it has completed, cert.generateForHost is called
\* exactly once for that hostname and the callbacks that were answered got the
\* same answer.
C1_Dedupe ==
  \A h \in Hostnames :
    Cardinality(EarlyFor(h)) >= 2 =>
      /\ Cardinality(CallsFor(h)) = 1
      /\ \A i, j \in EarlyFor(h) :
           Delivered(i) /\ Delivered(j) => inv[i].cbs[1] = inv[j].cbs[1]

\* C2: the serials passed to cert.generateForHost are strictly increasing in
\* call order.
C2_SerialsIncrease ==
  \A p, q \in Issuances : p < q => calls[p].serial < calls[q].serial

\* Issuances for two hostnames, the first of them failed, and a cache hit.
C2_Witness ==
  /\ Len(calls) >= 2
  /\ calls[1].host # calls[2].host
  /\ pstate[1] = "rejected"
  /\ \E i \in Invocations : inv[i].hit

\* C6: an invocation that awaits a failed issuance is answered with that
\* issuance's error and no identity, and so is every invocation for a hostname
\* made after an issuance for that hostname has failed.
C6_FailurePropagates ==
  \A i \in Invocations :
    /\ (~inv[i].threw /\ Delivered(i) /\ pstate[inv[i].promise] = "rejected") =>
         inv[i].cbs = <<[err |-> IssuanceError(inv[i].promise), ctx |-> 0]>>
    /\ inv[i].afterFailure =>
         /\ ~inv[i].threw
         /\ Delivered(i) => inv[i].cbs[1].err.kind = "issuance" /\ inv[i].cbs[1].ctx = 0

Modified(r) == rmode[r] \in {"raw", "structured"}
HeaderOr(h, n, none) == IF HasHeader(h, n) THEN h[n] ELSE none

\* C3: in raw and structured mode nothing is written to the client response
\* before the transform has called its continuation.
C3_NoEarlyFlush ==
  \A r \in Resp : Modified(r) /\ out[r] # <<>> => tf[r].conts >= 1

\* The whole body has arrived in several chunks and the transform has been
\* called but has not answered: nothing is written.
C3_Witness ==
  \E r \in Resp :
    /\ Modified(r)
    /\ Len(resp[r].sent) >= 2
    /\ resp[r].ended
    /\ Len(tf[r].calls) = 1
    /\ tf[r].conts = 0
    /\ out[r] = <<>>

HeadOf(o) == o[CHOOSE k \in 1..Len(o) : o[k].type = "head"]
Framing == {"content-length", "content-encoding", "content-transfer-encoding"}

\* C5: in raw and structured mode the head sent has the upstream status, a
\* content-length equal to the byte length of the body sent, no
\* content-encoding, no content-transfer-encoding, and every other upstream
\* header unchanged.
C5_HeadersConsistent ==
  \A r \in Resp :
    Modified(r) /\ HeadersSent(out[r]) =>
      LET hd == HeadOf(out[r])
      IN /\ hd.status = input[r].status
         /\ HasHeader(hd.headers, "content-length")
         /\ hd.headers["content-length"] = Len(EmittedBody(out[r]))
         /\ ~HasHeader(hd.headers, "content-encoding")
         /\ ~HasHeader(hd.headers, "content-transfer-encoding")
         /\ DOMAIN hd.headers \ Framing = DOMAIN input[r].headers \ Framing
         /\ \A n \in DOMAIN hd.headers \ Framing : hd.headers[n] = input[r].headers[n]

\* A compressed response sent with a transfer encoding, rewritten to a text
\* with a character of two bytes.
C5_Witness ==
  \E r \in Resp :
    /\ rmode[r] = "raw"
    /\ Finished(out[r])
    /\ HeaderOr(input[r].headers, "content-encoding", "absent") = "gzip"
    /\ HasHeader(input[r].headers, "content-transfer-encoding")
    /\ input[r].status = 404
    /\ tf[r].content1.t = "string"

\* C7: a decompression failure aborts the response: once the decompressor has
\* failed on a body that is not a stream of the declared encoding, the client
\* response has been closed (or the process has ended).
C7_DecodeFailureAborts ==
  \A r \in Resp :
    dec[r].phase = "error" /\ resp[r].body # <<>> => crashed \/ Finished(out[r])

\* C8: sendOriginalResponse writes the upstream status and headers unchanged
\* before any body byte, then the upstream chunks as they are and in order,
\* without decompressing and without calling a transform.
C8_PassthroughFidelity ==
  \A r \in Resp :
    rmode[r] = "passthrough" =>
      /\ out[r] # <<>>
      /\ out[r][1] = HeadEvent(input[r].status, input[r].headers)
      /\ \A k \in 2..Len(out[r]) : out[r][k].type # "head"
      /\ BodyChunks(out[r]) = resp[r].sent
      /\ Finished(out[r]) <=> resp[r].ended
      /\ Finished(out[r]) => out[r][Len(out[r])].type = "end"
      /\ resp[r].headers = input[r].headers
      /\ dec[r].kind = "none"
      /\ pipe[r].emitted = <<>>
      /\ tf[r].calls = <<>>

\* A gzip response with a content-length passed through in several chunks.
C8_Witness ==
  \E r \in Resp :
    /\ rmode[r] = "passthrough"
    /\ HeaderOr(input[r].headers, "content-encoding", "absent") = "gzip"
    /\ HasHeader(input[r].headers, "content-length")
    /\ input[r].kind = "gzip"
    /\ Len(resp[r].sent) >= 2
    /\ Finished(out[r])

\* C9: decompressorFor gives a gzip decoder for gzip and x-gzip, an inflate
\* decoder for deflate and none for any other content-encoding or none at all,
\* whatever the other headers are.
C9_DecoderMapping ==
  LET ce == HeaderOr(probe.headers, "content-encoding", "absent")
  IN /\ ce \in {"gzip", "x-gzip"} => probe.result = "gunzip"
     /\ ce = "deflate" => probe.result = "inflate"
     /\ ce \notin {"gzip", "x-gzip", "deflate"} => probe.result = "none"

\* decompressorFor was called for x-gzip.
C9_Witness ==
  /\ HeaderOr(probe.headers, "content-encoding", "absent") = "x-gzip"
  /\ probe.result = "gunzip"

\* The transform passed on the body it was given.
IdentityTransform(r) ==
  /\ tf[r].conts >= 1
  /\ tf[r].content1 = BufferOf(tf[r].calls[1])

\* C10: a body B sent as gzip(B) with content-encoding: gzip and rewritten in
\* raw mode by the identity transform is emitted as B, with content-length
\* len(B) and without content-encoding.
C10_GzipRoundTrip ==
  \A r \in Resp :
    ( /\ rmode[r] = "raw"
      /\ input[r].kind = "gzip"
      /\ HeaderOr(input[r].headers, "content-encoding", "absent") = "gzip"
      /\ IdentityTransform(r) ) =>
        /\ Finished(out[r])
        /\ EmittedBody(out[r]) = input[r].plain
        /\ HeaderOr(HeadOf(out[r]).headers, "content-length", -1) = Len(input[r].plain)
        /\ ~HasHeader(HeadOf(out[r]).headers, "content-encoding")

\* Such a body of two bytes, received in several chunks.
C10_Witness ==
  \E r \in Resp :
    /\ rmode[r] = "raw"
    /\ input[r].kind = "gzip"
    /\ HeaderOr(input[r].headers, "content-encoding", "absent") = "gzip"
    /\ IdentityTransform(r)
    /\ Len(input[r].plain) = 2
    /\ Len(resp[r].sent) >= 2
    /\ EmittedBody(out[r]) = input[r].plain

\* The bytes of {"x":1}, of "é" and of null.
JsonBytes(c) ==
  CASE c = ObjectOf(<<120>>, 1) -> <<123, 34, 120, 34, 58, 49, 125>>
    [] c = StringOf(<<233>>) -> <<34, 195, 169, 34>>
    [] c = Null -> <<110, 117, 108, 108>>

\* The bytes of a Buffer, and of the text "aé".
RawBytes(c) == IF c.t = "buffer" THEN c.bytes ELSE <<97, 195, 169>>

\* C11: in structured mode the body sent is the JSON text of the value passed
\* to the continuation and content-length is its byte length ({x: 1} gives the
\* 7 bytes of {"x":1}); in raw mode the body sent is the bytes passed.
C11_StructuredEncoding ==
  \A r \in Resp :
    Modified(r) /\ HeadersSent(out[r]) =>
      LET want == IF rmode[r] = "structured" THEN JsonBytes(tf[r].sent)
                  ELSE RawBytes(tf[r].sent)
      IN /\ EmittedBody(out[r]) = want
         /\ HeaderOr(HeadOf(out[r]).headers, "content-length", -1) = Len(want)
         /\ tf[r].sent = ObjectOf(<<120>>, 1) => Len(want) = 7

\* {x: 1} was sent in structured mode.
C11_Witness ==
  \E r \in Resp :
    /\ rmode[r] = "structured"
    /\ tf[r].sent = ObjectOf(<<120>>, 1)
    /\ Finished(out[r])
    /\ HeaderOr(HeadOf(out[r]).headers, "content-length", -1) = 7

\* C12: jsonParse runs the lenient parser only when JSON.parse has failed; it
\* never returns undefined; and the empty payload and the truncated { bad are
\* reported as errors.
C12_ParseFailureIsExplicit ==
  /\ parsed.paths = <<"strict", "lenient">> => ~JSONParse(parsed.payload).ok
  /\ parsed.outcome = "value" => parsed.val # <<"undefined">>
  /\ parsed.payload \in {<<>>, <<"{", "bad">>} => parsed.outcome = "throws"

\* C14: makeSNICallback returns a hook exactly when the runtime version is
\* 0.12 or later.
C14_CapabilityGate ==
  gate.hook <=> (gate.major > 0 \/ (gate.major = 0 /\ gate.minor >= 12))

\* The hostname under which the cache holds promise p, if any.
Cached(o, pr, h) == CacheGet(o, pr, h) # 0

\* C13: once a hostname has an entry in the cache, it keeps that same entry:
\* no step removes or replaces it.
C13_CacheNeverShrinks ==
  [][\A h \in Hostnames :
       Cached(own, proto, h) => CacheGet(own', proto', h) = CacheGet(own, proto, h)]_vars

\* C15: the serial has advanced by the number of calls made to
\* cert.generateForHost, which is the number of hostnames in the cache and the
\* number of invocations that missed the cache (a hit adds nothing).
C15_SerialCountsIssuances ==
  /\ serial - seed = Len(calls)
  /\ Len(calls) = Cardinality({h \in Hostnames : Cached(own, proto, h)})
  /\ Len(calls) = Cardinality({i \in Invocations : ~inv[i].hit /\ ~inv[i].threw})

\* C16: cert.generateForHost is called at most once for a hostname, also after
\* the issuance for it has failed.
C16_NoRetries ==
  \A h \in Hostnames : Cardinality(CallsFor(h)) <= 1

\* C17: an invocation's callback is called at most once, whatever the
\* callback does, only after the issuance it awaits has settled, with
\* (null, identity) if it succeeded and with (error, null) if it failed.
C17_CallbackExactlyOnce ==
  \A i \in Invocations :
    /\ Len(inv[i].cbs) <= 1
    /\ Delivered(i) =>
         /\ pstate[inv[i].promise] # "pending"
         /\ pstate[inv[i].promise] = "fulfilled" =>
              inv[i].cbs[1] = [err |-> NoError, ctx |-> inv[i].promise]
         /\ pstate[inv[i].promise] = "rejected" =>
              inv[i].cbs[1] = [err |-> IssuanceError(inv[i].promise), ctx |-> 0]

\* The first invocation for its hostname.
FirstFor(i) == \A j \in 1..(i - 1) : inv[j].host # inv[i].host

\* C18: the first invocation for a hostname starts the issuance for that
\* hostname whatever state the other hostnames are in, and what it is answered
\* is the outcome of that issuance.
C18_HostnamesIndependent ==
  \A i \in Invocations :
    FirstFor(i) =>
      /\ ~inv[i].threw
      /\ ~inv[i].hit
      /\ calls[inv[i].promise].host = inv[i].host
      /\ Delivered(i) =>
           inv[i].cbs[1].ctx = IF pstate[inv[i].promise] = "fulfilled"
                               THEN inv[i].promise ELSE 0

\* The upstream body of r as its own decompressor puts it out.
OwnDecoded(r) ==
  LET k == decompressorFor(input[r].headers)
  IN IF k = "none" THEN resp[r].body ELSE DecodeChunk(NewDecoder(k), resp[r].body).o

IsPrefix(a, b) == Len(a) <= Len(b) /\ SubSeq(b, 1, Len(a)) = a

\* C19: with several rewrites in flight, the chunks collected for a response
\* and the body given to its transform come from its own upstream body only,
\* and the status, headers and body sent to its client come from its own
\* upstream response and its own transform only.
C19_Isolation ==
  \A r \in Resp :
    Modified(r) =>
      /\ IsPrefix(OrigContent(chunks[r]), OwnDecoded(r))
      /\ \A k \in 1..Len(tf[r].calls) : tf[r].calls[k] = OwnDecoded(r)
      /\ out[r] # <<>> =>
           /\ tf[r].content1 \in
                (IF rmode[r] = "raw" THEN RawContents(OwnDecoded(r)) ELSE JsonContents)
           /\ out[r][1] = HeadEvent(input[r].status,
                                    RewrittenHeaders(input[r].headers,
                                                     ModifiedBuffer(rmode[r], tf[r].content1)))
           /\ EmittedBody(out[r]) = ModifiedBuffer(rmode[r], tf[r].content1)

\* Both responses are in the middle of their bodies, one in each mode.
C19_Witness ==
  /\ \A r \in Resp : Modified(r) /\ chunks[r] # <<>> /\ ~pipe[r].ended
  /\ rmode["r1"] # rmode["r2"]

=============================================================================
